---- MODULE Spec2Model ----
(***************************************************************************)
(* createSwaggerObject of lib/specgen/swagger-spec-generator.js as a state *)
(* machine: one run of the assembly pipeline over an introspection         *)
(* snapshot (routes, classes, models) and a caller-supplied options        *)
(* object.                                                                 *)
(*                                                                         *)
(* Strings the code parses are sequences of tokens: "." is the dot,        *)
(* "prototype" the nine letters of the instance-method marker, any other   *)
(* token an identifier without dots ("/" and "api" for the base path).     *)
(* A JavaScript object is a sequence of <<key, value>> pairs with distinct *)
(* keys, in insertion order, which is the order Object.keys and for-in     *)
(* enumerate non-numeric keys in.                                          *)
(***************************************************************************)
EXTENDS Integers, Sequences, FiniteSets, TLC

\* ------------------------------------------------------------------ bounds
MaxRoutes == 2
MaxClasses == 2
MaxModels == 1

\* ------------------------------------------------------- values and strings
\* An optional value is a sequence of length at most one: <<>> is undefined or
\* null, <<v>> is v.
None == <<>>
Some(v) == <<v>>

Range(s) == {s[k] : k \in 1..Len(s)}

SeqsUpTo(S, n) == UNION {[1..k -> S] : k \in 0..n}

\* s.indexOf(sub) + 1, or 0 when sub does not occur in s
IndexOf(s, sub) ==
  LET hits == {k \in 1..(Len(s) - Len(sub) + 1) : SubSeq(s, k, k + Len(sub) - 1) = sub}
  IN IF hits = {} THEN 0 ELSE CHOOSE k \in hits : \A h \in hits : k <= h

\* the literal 'prototype.' of line 96
Marker == <<"prototype", ".">>

\* /^([^.]+)\.(.*)$/.exec(method).slice(1): <<>> when exec returns null (the
\* .slice then throws), else <<group 1, group 2>>
ExecMethodRegex(method) ==
  LET dot == IndexOf(method, <<".">>)
  IN IF dot <= 1 THEN <<>>
     ELSE <<SubSeq(method, 1, dot - 1), SubSeq(method, dot + 1, Len(method))>>

\* methodName.replace('prototype.', ''): the first occurrence, wherever it is
StripMarker(methodName) ==
  LET at == IndexOf(methodName, Marker)
  IN IF at = 0 THEN methodName
     ELSE SubSeq(methodName, 1, at - 1) \o SubSeq(methodName, at + Len(Marker), Len(methodName))

\* ------------------------------------------------- ordered objects and sort
ObjKeys(obj) == [k \in 1..Len(obj) |-> obj[k][1]]

ObjHas(obj, key) == \E k \in 1..Len(obj) : obj[k][1] = key

\* obj[key], for a key obj has
ObjGet(obj, key) == obj[CHOOSE k \in 1..Len(obj) : obj[k][1] = key][2]

\* obj[key] = value: an existing key keeps its place, a new key goes last
ObjSet(obj, key, value) ==
  IF ObjHas(obj, key)
    THEN [k \in 1..Len(obj) |-> IF obj[k][1] = key THEN <<key, value>> ELSE obj[k]]
    ELSE Append(obj, <<key, value>>)

\* the code units of the path templates of RouteSet, as String.prototype.sort
\* compares them: "/a" < "/b" < "/c"
PathRank(p) == CASE p = "/a" -> 1 [] p = "/b" -> 2 [] p = "/c" -> 3

\* the same for the schema names of the run: "AccessToken" < "AccessToken_1"
\* < ... < "Account" < "Account_1" < ...; a name is <<base, suffix number>>
SchemaRank(n) == (IF n[1] = "AccessToken" THEN 0 ELSE 100) + n[2]

\* x put into an ascending sequence, by rank
RECURSIVE InsertSorted(_, _, _)
InsertSorted(x, sorted, rank) ==
  IF sorted = <<>> THEN <<x>>
  ELSE IF rank[x] < rank[Head(sorted)] THEN <<x>> \o sorted
  ELSE <<Head(sorted)>> \o InsertSorted(x, Tail(sorted), rank)

\* Array.prototype.sort over keys: ascending by rank, a function on the keys
RECURSIVE SortKeys(_, _)
SortKeys(keys, rank) ==
  IF keys = <<>> THEN <<>>
  ELSE InsertSorted(Head(keys), SortKeys(Tail(keys), rank), rank)

\* class names compare as "A" < "B" under the > of line 142
NameRank(n) == CASE n = <<"A">> -> 1 [] n = <<"B">> -> 2

\* ------------------------------------------------------------------ inputs
\* remotes.classes(): name, the documented flag of each method of methods(),
\* and the optional _swaggerMethods object as the set of its truthy keys
ClassSet ==
  { [name |-> <<"A">>, methods |-> <<TRUE>>, swaggerMethods |-> None],
    [name |-> <<"A">>, methods |-> <<FALSE, TRUE>>, swaggerMethods |-> Some({<<"find">>})],
    [name |-> <<"A">>, methods |-> <<TRUE>>, swaggerMethods |-> Some({<<"a", ".", "find">>})],
    [name |-> <<"A">>, methods |-> <<FALSE>>, swaggerMethods |-> None],
    [name |-> <<"B">>, methods |-> <<TRUE, FALSE>>, swaggerMethods |-> None],
    [name |-> <<>>, methods |-> <<TRUE>>, swaggerMethods |-> None] }

\* adapter.allRoutes(): documented flag, compound method identifier, verb,
\* path template, and the optional named shape the route returns
RouteSet ==
  { [documented |-> TRUE, method |-> <<"A", ".", "find">>, verb |-> "get", path |-> "/a",
     returns |-> None],
    [documented |-> TRUE, method |-> <<"A", ".", "find">>, verb |-> "post", path |-> "/b",
     returns |-> Some([name |-> "Account", shape |-> "s2"])],
    [documented |-> TRUE, method |-> <<"A", ".", "prototype", ".", "find">>, verb |-> "get",
     path |-> "/b", returns |-> Some([name |-> "AccessToken", shape |-> "s1"])],
    [documented |-> TRUE, method |-> <<"A", ".", "a", ".", "prototype", ".", "find">>,
     verb |-> "put", path |-> "/b", returns |-> None],
    [documented |-> TRUE, method |-> <<"B", ".", "find">>, verb |-> "get", path |-> "/a",
     returns |-> Some([name |-> "Account", shape |-> "s1"])],
    [documented |-> FALSE, method |-> <<"A", ".", "find">>, verb |-> "get", path |-> "/c",
     returns |-> None],
    [documented |-> TRUE, method |-> <<"find">>, verb |-> "get", path |-> "/c",
     returns |-> None] }

\* loopbackRegistry.modelBuilder.models: declared name and shape
ModelSet ==
  { [name |-> "Account", shape |-> "s1"],
    [name |-> "Account", shape |-> "s2"] }

\* the opts argument: absent, or an object with a basePath and a host
CallerOptsSet ==
  { None,
    Some(<< <<"basePath", <<"/", "v1", "/">>>>, <<"host", <<"example">>>> >>) }

\* the class names of a class list are distinct (remotes keeps its classes
\* keyed by name), and the unnamed class, when there is one, is listed first
DistinctNames(cs) ==
  /\ \A j, k \in 1..Len(cs) : (j # k) => (cs[j].name # cs[k].name)
  /\ \A k \in 2..Len(cs) : cs[k].name # <<>>

\* each route is listed once
NoRepeat(rs) == \A j, k \in 1..Len(rs) : (j # k) => (rs[j] # rs[k])

ClassLists == {cs \in SeqsUpTo(ClassSet, MaxClasses) : DistinctNames(cs)}
RouteLists == {rs \in SeqsUpTo(RouteSet, MaxRoutes) : NoRepeat(rs)}
ModelLists == SeqsUpTo(ModelSet, MaxModels)

\* ------------------------------------------- collaborators (specified only)
\* TypeRegistry.register: the name a definition is bound to. The declared name
\* when it is free or bound to the same shape, else the first suffixed name
\* that is free or bound to the same shape.
RegisteredName(reg, base, shape) ==
  LET fits(n) == ~ObjHas(reg, <<base, n>>) \/ ObjGet(reg, <<base, n>>) = shape
  IN <<base, CHOOSE n \in 0..Len(reg) : fits(n) /\ \A m \in 0..(n - 1) : ~fits(m)>>

\* the registry after register(definition)
Register(reg, def) ==
  LET name == RegisteredName(reg, def.name, def.shape)
  IN IF ObjHas(reg, name) THEN reg ELSE Append(reg, <<name, def.shape>>)

\* modelHelper.registerModelDefinition(model, typeRegistry, opts)
RegisterModelDefinition(model, reg) == Register(reg, model)

\* typeRegistry.getSchemas()
GetSchemas(reg) == reg

\* the operation-id registry's reserve: the candidate itself the first time,
\* the candidate with the next free number after that; an id is
\* <<candidate, number>>
ReserveOperationId(ids, candidate) ==
  <<candidate, CHOOSE n \in 0..Cardinality(ids) :
                 /\ <<candidate, n>> \notin ids
                 /\ \A m \in 0..(n - 1) : <<candidate, m>> \in ids>>

\* tagBuilder.buildTagFromClass(aClass)
BuildTagFromClass(aClass) == [name |-> aClass.name]

\* the HTTP methods of line 125
Methods == <<"get", "post", "put", "patch", "delete", "head", "options">>

EmptyPathItem == [m \in Range(Methods) |-> None]

\* routeHelper.addRouteToSwaggerPaths(route, classDef, typeRegistry,
\* operationIdRegistry, paths, opts): registers the shape the route returns,
\* reserves the operation id proposed by the route's method identifier, tags
\* the operation with the class name and stores it at paths[path][verb],
\* replacing what was there
AddRouteToSwaggerPaths(route, classDef, reg, ids, pathsObj) ==
  LET reg2 == IF route.returns = None THEN reg ELSE Register(reg, route.returns[1])
      schema == IF route.returns = None THEN None
                ELSE Some(RegisteredName(reg, route.returns[1].name, route.returns[1].shape))
      id == ReserveOperationId(ids, route.method)
      op == [operationId |-> id,
             tags |-> IF classDef.name = <<>> THEN <<>> ELSE <<classDef.name>>,
             schema |-> schema]
      item == IF ObjHas(pathsObj, route.path) THEN ObjGet(pathsObj, route.path)
              ELSE EmptyPathItem
  IN [typeRegistry |-> reg2,
      operationIdRegistry |-> ids \cup {id},
      paths |-> ObjSet(pathsObj, route.path, [item EXCEPT ![route.verb] = Some(op)])]

\* ------------------------------------------------------ createSwaggerObject
\* the defaults object of lines 30-52 (restApiRoot unset, no package.json)
OptionDefaults ==
  << <<"basePath", <<"/", "api">>>>,
     <<"consumes", <<"application/json">>>>,
     <<"produces", <<"application/json">>>>,
     <<"securitySchemes", <<"accessToken", "accessTokenParam">>>>,
     <<"version", <<"1.0.0">>>> >>

\* _.defaults(dest, src): dest itself, with every key of src it lacks added
RECURSIVE Defaults(_, _)
Defaults(dest, src) ==
  IF src = <<>> THEN dest
  ELSE Defaults(IF ObjHas(dest, Head(src)[1]) THEN dest ELSE Append(dest, Head(src)),
                Tail(src))

\* basePath with one trailing slash removed (lines 173-175)
StripTrailingSlash(basePath) ==
  IF basePath # <<>> /\ basePath[Len(basePath)] = "/"
    THEN SubSeq(basePath, 1, Len(basePath) - 1)
    ELSE basePath

\* generateSwaggerObjectBase(opts, loopbackApplication), no 'swagger' extension
GenerateSwaggerObjectBase(o) ==
  [version |-> ObjGet(o, "version"),
   servers |-> <<StripTrailingSlash(ObjGet(o, "basePath"))>>,
   paths |-> <<>>,
   tags |-> <<>>,
   schemas |-> <<>>,
   securitySchemes |-> ObjGet(o, "securitySchemes"),
   security |-> [k \in 1..Len(ObjGet(o, "securitySchemes")) |->
                   <<ObjGet(o, "securitySchemes")[k], <<>>>>]]

\* aClass.methods().some(m => m.documented)
HasDocumentedMethods(aClass) == \E k \in 1..Len(aClass.methods) : aClass.methods[k]

\* TagStep without the test of line 83
TagStep_NoDocumentedCheck(candidates, aClass) ==
  IF aClass.name = <<>> THEN candidates
  ELSE Append(candidates, BuildTagFromClass(aClass))

\* the callback of classes.forEach (lines 77-87): the candidate tags after aClass
TagStep(candidates, aClass) ==
  IF aClass.name = <<>> THEN candidates
  ELSE IF ~HasDocumentedMethods(aClass) THEN candidates
  ELSE Append(candidates, BuildTagFromClass(aClass))

\* classes.filter(item => item.name === className)[0], as an optional
ClassDefOf(cs, className) ==
  LET found == SelectSeq(cs, LAMBDA c : c.name = className)
  IN IF found = <<>> THEN None ELSE Some(found[1])

\* RouteOutcome without the test of lines 102-105: line 108 then reads a
\* property of undefined, which throws
RouteOutcome_NoOrphanCheck(route, cs) ==
  IF ~route.documented THEN "undocumented"
  ELSE LET parts == ExecMethodRegex(route.method)
       IN IF parts = <<>> THEN "throws"
          ELSE LET classDef == ClassDefOf(cs, parts[1])
                   methodName == StripMarker(parts[2])
               IN IF classDef = None THEN "throws"
                  ELSE IF /\ classDef[1].swaggerMethods # None
                          /\ methodName \notin classDef[1].swaggerMethods[1]
                         THEN "filtered"
                         ELSE "mapped"

\* which way the callback of routes.forEach (lines 91-116) goes for route
RouteOutcome(route, cs) ==
  IF ~route.documented THEN "undocumented"
  ELSE LET parts == ExecMethodRegex(route.method)
       IN IF parts = <<>> THEN "throws"
          ELSE LET classDef == ClassDefOf(cs, parts[1])
                   methodName == StripMarker(parts[2])
               IN IF classDef = None THEN "orphan"
                  ELSE IF /\ classDef[1].swaggerMethods # None
                          /\ methodName \notin classDef[1].swaggerMethods[1]
                         THEN "filtered"
                         ELSE "mapped"

\* SortedSchema without the sort of line 120
SortedSchema_Unsorted(reg) == GetSchemas(reg)

\* the schemas of lines 118-123: the registry's schemas in sorted key order
SortedSchema(reg) ==
  LET schemas == GetSchemas(reg)
  IN [k \in 1..Len(schemas) |->
        LET keys == ObjKeys(schemas)
            key == SortKeys(keys, [n \in Range(keys) |-> SchemaRank(n)])[k]
        IN <<key, ObjGet(schemas, key)>>]

\* SortedPathKeys without the sort of line 127
SortedPathKeys_Unsorted(pathsObj) == ObjKeys(pathsObj)

\* Object.keys(paths).sort() of line 127
SortedPathKeys(pathsObj) ==
  LET keys == ObjKeys(pathsObj) IN SortKeys(keys, [p \in Range(keys) |-> PathRank(p)])

\* swaggerObject.paths after the loop of lines 127-139
EmittedPaths(pathsObj) ==
  [k \in 1..Len(pathsObj) |->
     LET current == SortedPathKeys(pathsObj)[k]
     IN <<current, [method \in Range(Methods) |-> ObjGet(pathsObj, current)[method]]>>]

\* usedTags after the loop of lines 127-139, as the set of its keys
UsedTags(pathsObj) ==
  UNION {Range(pathsObj[k][2][m][1].tags) :
           <<k, m>> \in {km \in (1..Len(pathsObj)) \X Range(Methods) : pathsObj[km[1]][2][km[2]] # None}}

\* FilteredTags without the filter of line 142
FilteredTags_KeepsAll(candidates, used) ==
  LET unsorted == [k \in 1..Len(candidates) |-> candidates[k].name]
      names == SortKeys(unsorted, [n \in Range(unsorted) |-> NameRank(n)])
  IN [k \in 1..Len(candidates) |-> CHOOSE t \in Range(candidates) : t.name = names[k]]

\* tags.filter(tag => usedTags[tag.name]).sort(by name) of line 142
FilteredTags(candidates, used) ==
  LET kept == SelectSeq(candidates, LAMBDA t : t.name \in used)
      unsorted == [k \in 1..Len(kept) |-> kept[k].name]
      names == SortKeys(unsorted, [n \in Range(unsorted) |-> NameRank(n)])
  IN [k \in 1..Len(kept) |-> CHOOSE t \in Range(kept) : t.name = names[k]]

\* _.assign(dest, src)
RECURSIVE Assign(_, _)
Assign(dest, src) ==
  IF src = <<>> THEN dest
  ELSE Assign(ObjSet(dest, Head(src)[1], Head(src)[2]), Tail(src))

\* ------------------------------------------------------------------- state
VARIABLES
  callerOpts,          \* the object the caller passed as opts, as the caller sees it
  callerOpts0,         \* what that object held when the call was made
  routes,              \* adapter.allRoutes()
  classes,             \* remotes.classes()
  models,              \* modelBuilder.models, in for-in order
  opts,                \* the local opts after line 30
  swaggerObject,
  typeRegistry,
  operationIdRegistry,
  tags,                \* the candidate tags of line 76
  paths,               \* the path grid of line 89
  usedTags,
  pc,                  \* the statement the run has reached
  idx,                 \* the position of the loop the run is in
  delegated,           \* the routes handed to addRouteToSwaggerPaths, by position
  diagnostics,         \* the routes reported through g.error, by position
  lastParse            \* className and methodName of the latest callback past line 96

vars == <<callerOpts, callerOpts0, routes, classes, models, opts, swaggerObject,
          typeRegistry, operationIdRegistry, tags, paths, usedTags, pc, idx,
          delegated, diagnostics, lastParse>>

inputs == <<callerOpts0, routes, classes, models>>

NoDocument ==
  [version |-> <<>>, servers |-> <<>>, paths |-> <<>>, tags |-> <<>>, schemas |-> <<>>,
   securitySchemes |-> <<>>, security |-> <<>>]

Init ==
  /\ callerOpts \in CallerOptsSet
  /\ callerOpts0 = callerOpts
  /\ routes \in RouteLists
  /\ classes \in ClassLists
  /\ models \in ModelLists
  /\ opts = <<>>
  /\ swaggerObject = NoDocument
  /\ typeRegistry = <<>>
  /\ operationIdRegistry = {}
  /\ tags = <<>>
  /\ paths = <<>>
  /\ usedTags = {}
  /\ pc = "options"
  /\ idx = 1
  /\ delegated = <<>>
  /\ diagnostics = <<>>
  /\ lastParse = None

\* where the run goes when a loop has nothing (more) to visit
AfterRoutes == "schemas"
AfterClasses == IF Len(routes) > 0 THEN "routes" ELSE AfterRoutes
AfterModels == IF Len(classes) > 0 THEN "classes" ELSE AfterClasses
AfterBase == IF Len(models) > 0 THEN "models" ELSE AfterModels

\* the next position of a loop over list: its next element, or what follows it
NextIn(list, after) ==
  /\ pc' = IF idx < Len(list) THEN pc ELSE after
  /\ idx' = IF idx < Len(list) THEN idx + 1 ELSE 1

\* lines 95-96: the locals className and methodName for the route at idx
Parse ==
  LET parts == ExecMethodRegex(routes[idx].method)
  IN Some([route |-> idx, className |-> parts[1], methodName |-> StripMarker(parts[2])])

\* lines 30-52: opts = _.defaults(opts || {}, {...})
MergeOptions ==
  /\ pc = "options"
  /\ opts' = Defaults(IF callerOpts = None THEN <<>> ELSE callerOpts[1], OptionDefaults)
  /\ callerOpts' = IF callerOpts = None THEN None ELSE Some(opts')
  /\ pc' = "base"
  /\ UNCHANGED <<inputs, swaggerObject, typeRegistry, operationIdRegistry, tags, paths,
                 usedTags, idx, delegated, diagnostics, lastParse>>

\* lines 55-68: the base document and the two registries of the run
GenerateBase ==
  /\ pc = "base"
  /\ swaggerObject' = GenerateSwaggerObjectBase(opts)
  /\ typeRegistry' = <<>>
  /\ operationIdRegistry' = {}
  /\ pc' = AfterBase
  /\ idx' = 1
  /\ UNCHANGED <<inputs, callerOpts, opts, tags, paths, usedTags, delegated, diagnostics, lastParse>>

\* lines 69-71: one turn of the loop over the models
RegisterModel ==
  /\ pc = "models"
  /\ typeRegistry' = RegisterModelDefinition(models[idx], typeRegistry)
  /\ NextIn(models, AfterModels)
  /\ UNCHANGED <<inputs, callerOpts, opts, swaggerObject, operationIdRegistry, tags, paths,
                 usedTags, delegated, diagnostics, lastParse>>

\* lines 77-87: the callback of classes.forEach for one class
ClassCallback ==
  /\ pc = "classes"
  /\ tags' = TagStep(tags, classes[idx])
  /\ NextIn(classes, AfterClasses)
  /\ UNCHANGED <<inputs, callerOpts, opts, swaggerObject, typeRegistry, operationIdRegistry,
                 paths, usedTags, delegated, diagnostics, lastParse>>

\* line 92: an undocumented route is passed over
SkipUndocumentedRoute ==
  /\ pc = "routes"
  /\ RouteOutcome(routes[idx], classes) = "undocumented"
  /\ NextIn(routes, AfterRoutes)
  /\ UNCHANGED <<inputs, callerOpts, opts, swaggerObject, typeRegistry, operationIdRegistry,
                 tags, paths, usedTags, delegated, diagnostics, lastParse>>

\* line 95: exec returns null for an identifier without a class part, and
\* .slice throws out of createSwaggerObject
RouteThrows ==
  /\ pc = "routes"
  /\ RouteOutcome(routes[idx], classes) = "throws"
  /\ pc' = "threw"
  /\ UNCHANGED <<inputs, callerOpts, opts, swaggerObject, typeRegistry, operationIdRegistry,
                 tags, paths, usedTags, idx, delegated, diagnostics, lastParse>>

\* lines 102-105: no class of that name, g.error and return
OrphanRoute ==
  /\ pc = "routes"
  /\ RouteOutcome(routes[idx], classes) = "orphan"
  /\ diagnostics' = Append(diagnostics, idx)
  /\ lastParse' = Parse
  /\ NextIn(routes, AfterRoutes)
  /\ UNCHANGED <<inputs, callerOpts, opts, swaggerObject, typeRegistry, operationIdRegistry,
                 tags, paths, usedTags, delegated>>

\* lines 108-111: the method is not in the class's _swaggerMethods
FilterRoute ==
  /\ pc = "routes"
  /\ RouteOutcome(routes[idx], classes) = "filtered"
  /\ lastParse' = Parse
  /\ NextIn(routes, AfterRoutes)
  /\ UNCHANGED <<inputs, callerOpts, opts, swaggerObject, typeRegistry, operationIdRegistry,
                 tags, paths, usedTags, delegated, diagnostics>>

\* AddRoute with the type registry of line 63 made anew for each route
AddRoute_FreshTypeRegistry ==
  /\ pc = "routes"
  /\ RouteOutcome(routes[idx], classes) = "mapped"
  /\ LET classDef == ClassDefOf(classes, ExecMethodRegex(routes[idx].method)[1])[1]
         r == AddRouteToSwaggerPaths(routes[idx], classDef, <<>>, operationIdRegistry, paths)
     IN /\ typeRegistry' = r.typeRegistry
        /\ operationIdRegistry' = r.operationIdRegistry
        /\ paths' = r.paths
  /\ delegated' = Append(delegated, idx)
  /\ lastParse' = Parse
  /\ NextIn(routes, AfterRoutes)
  /\ UNCHANGED <<inputs, callerOpts, opts, swaggerObject, tags, usedTags, diagnostics>>

\* AddRoute with the id registry of line 64 made anew for each route
AddRoute_FreshIdRegistry ==
  /\ pc = "routes"
  /\ RouteOutcome(routes[idx], classes) = "mapped"
  /\ LET classDef == ClassDefOf(classes, ExecMethodRegex(routes[idx].method)[1])[1]
         r == AddRouteToSwaggerPaths(routes[idx], classDef, typeRegistry, {}, paths)
     IN /\ typeRegistry' = r.typeRegistry
        /\ operationIdRegistry' = operationIdRegistry \cup r.operationIdRegistry
        /\ paths' = r.paths
  /\ delegated' = Append(delegated, idx)
  /\ lastParse' = Parse
  /\ NextIn(routes, AfterRoutes)
  /\ UNCHANGED <<inputs, callerOpts, opts, swaggerObject, tags, usedTags, diagnostics>>

\* lines 113-115: the route goes to the route mapper with the run's registries
AddRoute ==
  /\ pc = "routes"
  /\ RouteOutcome(routes[idx], classes) = "mapped"
  /\ LET classDef == ClassDefOf(classes, ExecMethodRegex(routes[idx].method)[1])[1]
         r == AddRouteToSwaggerPaths(routes[idx], classDef, typeRegistry,
                                     operationIdRegistry, paths)
     IN /\ typeRegistry' = r.typeRegistry
        /\ operationIdRegistry' = r.operationIdRegistry
        /\ paths' = r.paths
  /\ delegated' = Append(delegated, idx)
  /\ lastParse' = Parse
  /\ NextIn(routes, AfterRoutes)
  /\ UNCHANGED <<inputs, callerOpts, opts, swaggerObject, tags, usedTags, diagnostics>>

\* lines 118-123: the schemas, sorted by key, into components.schemas
EmitSchemas ==
  /\ pc = "schemas"
  /\ swaggerObject' =
       [swaggerObject EXCEPT !.schemas = Assign(@, SortedSchema(typeRegistry))]
  /\ pc' = "paths"
  /\ UNCHANGED <<inputs, callerOpts, opts, typeRegistry, operationIdRegistry, tags, paths,
                 usedTags, idx, delegated, diagnostics, lastParse>>

\* lines 125-139: the paths, sorted by key, into the document; the used tags
EmitPaths ==
  /\ pc = "paths"
  /\ swaggerObject' = [swaggerObject EXCEPT !.paths = EmittedPaths(paths)]
  /\ usedTags' = UsedTags(paths)
  /\ pc' = "tags"
  /\ UNCHANGED <<inputs, callerOpts, opts, typeRegistry, operationIdRegistry, tags, paths,
                 idx, delegated, diagnostics, lastParse>>

\* lines 142-145: the used tags by name, and the document is returned
EmitTags ==
  /\ pc = "tags"
  /\ swaggerObject' = [swaggerObject EXCEPT !.tags = FilteredTags(tags, usedTags)]
  /\ pc' = "done"
  /\ UNCHANGED <<inputs, callerOpts, opts, typeRegistry, operationIdRegistry, tags, paths,
                 usedTags, idx, delegated, diagnostics, lastParse>>

Next ==
  \/ MergeOptions
  \/ GenerateBase
  \/ RegisterModel
  \/ ClassCallback
  \/ SkipUndocumentedRoute
  \/ RouteThrows
  \/ OrphanRoute
  \/ FilterRoute
  \/ AddRoute
  \/ EmitSchemas
  \/ EmitPaths
  \/ EmitTags

Spec == Init /\ [][Next]_vars

\* the runs of a caller that passes no opts
InitDefaultOptions == Init /\ callerOpts = None

SpecDefaultOptions == InitDefaultOptions /\ [][Next]_vars

\* ------------------------------------------------- the run as one function
\* the loop of lines 69-71 over ms
RECURSIVE ModelsPass(_, _)
ModelsPass(ms, reg) ==
  IF ms = <<>> THEN reg
  ELSE ModelsPass(Tail(ms), RegisterModelDefinition(Head(ms), reg))

\* classes.forEach of lines 77-87 over cs
RECURSIVE ClassesPass(_, _)
ClassesPass(cs, candidates) ==
  IF cs = <<>> THEN candidates
  ELSE ClassesPass(Tail(cs), TagStep(candidates, Head(cs)))

\* routes.forEach of lines 91-116 over rs, with the classes all
RECURSIVE RoutesPass(_, _, _)
RoutesPass(rs, all, st) ==
  IF rs = <<>> THEN st
  ELSE LET outcome == RouteOutcome(Head(rs), all)
       IN IF outcome = "throws" THEN [st EXCEPT !.threw = TRUE]
          ELSE IF outcome # "mapped" THEN RoutesPass(Tail(rs), all, st)
          ELSE LET classDef == ClassDefOf(all, ExecMethodRegex(Head(rs).method)[1])[1]
                   r == AddRouteToSwaggerPaths(Head(rs), classDef, st.typeRegistry,
                                               st.operationIdRegistry, st.paths)
               IN RoutesPass(Tail(rs), all,
                             [typeRegistry |-> r.typeRegistry,
                              operationIdRegistry |-> r.operationIdRegistry,
                              paths |-> r.paths, threw |-> FALSE])

\* the path grid of line 89 after the loops over ms and rs, when no route throws
PathGridOf(rs, cs, ms) ==
  RoutesPass(rs, cs, [typeRegistry |-> ModelsPass(ms, <<>>),
                      operationIdRegistry |-> {}, paths |-> <<>>,
                      threw |-> FALSE]).paths

\* the document createSwaggerObject returns for a snapshot (rs, cs, ms) and the
\* optional opts o, when no route throws
DocumentOf(rs, cs, ms, o) ==
  LET base == GenerateSwaggerObjectBase(
                Defaults(IF o = None THEN <<>> ELSE o[1], OptionDefaults))
      st == RoutesPass(rs, cs, [typeRegistry |-> ModelsPass(ms, <<>>),
                                operationIdRegistry |-> {}, paths |-> <<>>,
                                threw |-> FALSE])
  IN [base EXCEPT !.schemas = Assign(@, SortedSchema(st.typeRegistry)),
                  !.paths = EmittedPaths(st.paths),
                  !.tags = FilteredTags(ClassesPass(cs, <<>>), UsedTags(st.paths))]

\* the reorderings of a list
Reorderings(list) ==
  {[k \in 1..Len(list) |-> list[f[k]]] :
     f \in {g \in [1..Len(list) -> 1..Len(list)] : \A j, k \in 1..Len(list) : g[j] = g[k] => j = k}}

\* --------------------------------------------------- reading the document
\* the operations of a paths object, each with its path and method
Operations(pathsObj) ==
  {[path |-> pathsObj[k][1], method |-> m, op |-> pathsObj[k][2][m][1]] :
     <<k, m>> \in {km \in (1..Len(pathsObj)) \X Range(Methods) : pathsObj[km[1]][2][km[2]] # None}}

\* the tag names the operations of a paths object carry
OperationTagNames(pathsObj) == UNION {Range(e.op.tags) : e \in Operations(pathsObj)}

\* the path and method slots a paths object fills
Slots(pathsObj) == {<<e.path, e.method>> : e \in Operations(pathsObj)}

\* how many of the emitted tags bear the name n
TagCount(n) == Cardinality({k \in 1..Len(swaggerObject.tags) : swaggerObject.tags[k].name = n})

\* the run has returned its document
Returned == pc = "done"

\* the routes whose callback has run to its end
Processed ==
  IF pc = "routes" THEN 1..(idx - 1)
  ELSE IF pc \in {"schemas", "paths", "tags", "done"} THEN 1..Len(routes)
  ELSE {}

\* the owning class and the method name a method identifier stands for: the
\* text before the first dot, and the rest without a leading 'prototype.'
OwnerOf(method) == SubSeq(method, 1, IndexOf(method, <<".">>) - 1)
RestOf(method) == SubSeq(method, IndexOf(method, <<".">>) + 1, Len(method))
MethodNameOf(method) ==
  IF Len(RestOf(method)) >= Len(Marker) /\ SubSeq(RestOf(method), 1, Len(Marker)) = Marker
    THEN SubSeq(RestOf(method), Len(Marker) + 1, Len(RestOf(method)))
    ELSE RestOf(method)

\* the identifier has the form Class.method or Class.prototype.method
WellFormed(method) == IndexOf(method, <<".">>) > 1

\* the classes of the class list that bear the name n
ClassesNamed(n) == {k \in 1..Len(classes) : classes[k].name = n}

\* a class none of whose methods is documented
ZeroDocumented(c) == \A k \in 1..Len(c.methods) : ~c.methods[k]

\* ------------------------------------------------------------------ claims
\* The document the steps build is the document of the run taken as one
\* function of its inputs.
StepsAgreeWithRun ==
  Returned => swaggerObject = DocumentOf(routes, classes, models, callerOpts0)

Ascending(obj, rank(_)) ==
  \A k \in 1..(Len(obj) - 1) : rank(obj[k][1]) < rank(obj[k + 1][1])

\* C5: in the returned document the keys of paths are strictly ascending and
\* the keys of components.schemas are strictly ascending.
C5_KeysAscending ==
  Returned =>
    /\ Ascending(swaggerObject.paths, PathRank)
    /\ Ascending(swaggerObject.schemas, SchemaRank)

\* C5 witness: a returned document of several paths and several schemas whose
\* routes were mapped and schemas registered out of key order.
C5_Witness ==
  /\ Returned
  /\ Len(paths) >= 2 /\ ~Ascending(paths, PathRank)
  /\ Len(typeRegistry) >= 2 /\ ~Ascending(typeRegistry, SchemaRank)
  /\ Len(swaggerObject.paths) = Len(paths)
  /\ Len(swaggerObject.schemas) = Len(typeRegistry)

\* C6 as stated: a class with zero documented methods has no tag in the
\* returned document, no route that names it as owner is handed to the mapper,
\* and no emitted operation is its.
C6_UndocumentedClassContributesNothing ==
  Returned =>
    \A c \in 1..Len(classes) :
      ZeroDocumented(classes[c]) =>
        /\ TagCount(classes[c].name) = 0
        /\ \A d \in 1..Len(delegated) :
             OwnerOf(routes[delegated[d]].method) # classes[c].name
        /\ classes[c].name \notin OperationTagNames(swaggerObject.paths)

\* C6 amended: a class with zero documented methods has no tag, neither among
\* the candidates nor in the document; a documented route that names it is
\* not reported as orphaned.
C6_UndocumentedClassHasNoTag ==
  \A c \in 1..Len(classes) :
    ZeroDocumented(classes[c]) =>
      /\ TagCount(classes[c].name) = 0
      /\ \A k \in 1..Len(tags) : tags[k].name # classes[c].name
      /\ \A d \in 1..Len(diagnostics) :
           OwnerOf(routes[diagnostics[d]].method) # classes[c].name

\* C6 witness: the document is returned, a class has zero documented methods,
\* and a documented route naming it went to the mapper.
C6_Witness ==
  /\ Returned
  /\ \E c \in 1..Len(classes), d \in 1..Len(delegated) :
       /\ ZeroDocumented(classes[c])
       /\ OwnerOf(routes[delegated[d]].method) = classes[c].name

\* C2: the ids the registry handed out are as many as the routes mapped, and
\* no two operations of the path grid or of the document share an operationId.
C2_OperationIdsDistinct ==
  /\ Cardinality(operationIdRegistry) = Len(delegated)
  /\ \A e, f \in Operations(paths) \cup Operations(swaggerObject.paths) :
       (<<e.path, e.method>> # <<f.path, f.method>>) => e.op.operationId # f.op.operationId

\* C2 witness: the returned document holds two operations whose routes
\* proposed the same candidate id.
C2_Witness ==
  /\ Returned
  /\ \E e, f \in Operations(swaggerObject.paths) :
       /\ e # f
       /\ e.op.operationId[1] = f.op.operationId[1]

\* every definition registered in the run so far: the models visited and what
\* the mapped routes return
RegisteredDefinitions ==
  {models[k] : k \in IF pc = "models" THEN 1..(idx - 1)
                     ELSE IF pc \in {"options", "base"} THEN {} ELSE 1..Len(models)}
    \cup {routes[delegated[d]].returns[1] :
            d \in {x \in 1..Len(delegated) : routes[delegated[x]].returns # None}}

\* the entries of a schema object whose name derives from base
EntriesOf(obj, base) == {k \in 1..Len(obj) : obj[k][1][1] = base}

\* every registered definition is in obj under a name of its own base, once,
\* and obj holds nothing else under that base
HoldsEachOnce(obj) ==
  \A d \in RegisteredDefinitions :
    /\ Cardinality({k \in EntriesOf(obj, d.name) : obj[k][2] = d.shape}) = 1
    /\ Cardinality(EntriesOf(obj, d.name)) =
         Cardinality({e.shape : e \in {x \in RegisteredDefinitions : x.name = d.name}})

\* C3: no registration overwrites a schema: each registered definition is
\* bound once in the registry, two different definitions of one name under
\* two names, all of them are in components.schemas of the document, and the
\* name an operation got for what its route returns is bound to that shape.
C3_NoSchemaOverwritten ==
  /\ HoldsEachOnce(typeRegistry)
  /\ Returned => HoldsEachOnce(swaggerObject.schemas)
  /\ Returned =>
       \A e \in Operations(swaggerObject.paths) :
         e.op.schema # None =>
           \E k \in 1..Len(routes) :
             /\ routes[k].path = e.path /\ routes[k].verb = e.method
             /\ routes[k].returns # None
             /\ e.op.schema[1][1] = routes[k].returns[1].name
             /\ ObjHas(swaggerObject.schemas, e.op.schema[1])
             /\ ObjGet(swaggerObject.schemas, e.op.schema[1]) = routes[k].returns[1].shape

\* C3 witness: the returned document holds two different definitions of one
\* declared name, one of which was registered twice, by a model and by a route.
C3_Witness ==
  /\ Returned
  /\ Cardinality(EntriesOf(swaggerObject.schemas, "Account")) = 2
  /\ \E m \in 1..Len(models), d \in 1..Len(delegated) :
       routes[delegated[d]].returns = Some(models[m])

\* C4 as stated: a snapshot of the same routes, classes and models in another
\* order yields the same document.
C4_DocumentIndependentOfOrder ==
  Returned =>
    \A rs \in Reorderings(routes), cs \in Reorderings(classes), ms \in Reorderings(models) :
      DocumentOf(rs, cs, ms, callerOpts0) = swaggerObject

\* the paths a snapshot yields have the keys, in order, and the filled slots
\* of the returned document
SamePathsAndSlots(rs, cs, ms) ==
  LET other == EmittedPaths(PathGridOf(rs, cs, ms))
  IN /\ ObjKeys(other) = ObjKeys(swaggerObject.paths)
     /\ Slots(other) = Slots(swaggerObject.paths)

\* C4 amended: a snapshot of the same routes, classes and models in another
\* order yields a document with the same keys of paths in the same order and
\* the same path and method slots filled. One list is reordered at a time: the
\* runs over every order of the routes and of the models are all among the
\* behaviours, so the three steps chain to any joint reordering.
C4_PathsAndSlotsIndependentOfOrder ==
  Returned =>
    /\ \A rs \in Reorderings(routes) : SamePathsAndSlots(rs, classes, models)
    /\ \A cs \in Reorderings(classes) : SamePathsAndSlots(routes, cs, models)
    /\ \A ms \in Reorderings(models) : SamePathsAndSlots(routes, classes, ms)

\* C4 witness: a returned document of two paths whose routes were mapped
\* against their key order, from a snapshot with two classes.
C4_Witness ==
  /\ Returned
  /\ Len(swaggerObject.paths) = 2 /\ ~Ascending(paths, PathRank)
  /\ Len(classes) = 2

\* a documented route with a well-formed identifier whose owning class is
\* not in the class list
Orphaned(r) ==
  /\ routes[r].documented
  /\ WellFormed(routes[r].method)
  /\ ClassesNamed(OwnerOf(routes[r].method)) = {}

\* C7: an orphaned route is reported and not mapped, it raises nothing (the
\* run throws only at a documented route whose identifier has no class part),
\* the other routes are still processed (a documented route of a class
\* without allow-list is mapped), and after it the run is at a later route
\* or past the loop, on its way to returning the document.
C7_OrphanRouteIsSkipped ==
  /\ \A r \in Processed :
       Orphaned(r) =>
         /\ \E d \in 1..Len(diagnostics) : diagnostics[d] = r
         /\ \A d \in 1..Len(delegated) : delegated[d] # r
  /\ \A d \in 1..Len(delegated) :
       routes[delegated[d]].path \in Range(ObjKeys(paths))
  /\ \A r \in Processed :
       (/\ routes[r].documented
        /\ \E c \in ClassesNamed(OwnerOf(routes[r].method)) : classes[c].swaggerMethods = None)
         => \E d \in 1..Len(delegated) : delegated[d] = r
  /\ pc = "threw" => (routes[idx].documented /\ ~WellFormed(routes[idx].method))
  /\ (lastParse # None /\ Orphaned(lastParse[1].route)) =>
       \/ pc = "routes" /\ idx \in (lastParse[1].route + 1)..Len(routes)
       \/ pc = "threw" /\ idx > lastParse[1].route
       \/ pc \in {"schemas", "paths", "tags", "done"}

\* C7 witness: the document is returned with an operation of a route that
\* came after an orphaned route and one of a route that came before one.
C7_Witness ==
  /\ Returned
  /\ \E r \in 1..Len(routes), d \in 1..Len(delegated) : Orphaned(r) /\ delegated[d] > r
  /\ Operations(swaggerObject.paths) # {}

\* C8 as stated: a documented route of a class with an allow-list goes to the
\* mapper exactly when its method name, the identifier's rest without a
\* leading 'prototype.', is in the list; a class without one is not filtered.
C8_AllowListFilters ==
  \A r \in Processed :
    (routes[r].documented /\ WellFormed(routes[r].method)) =>
      \A c \in ClassesNamed(OwnerOf(routes[r].method)) :
        (\E d \in 1..Len(delegated) : delegated[d] = r)
          <=> \/ classes[c].swaggerMethods = None
              \/ /\ classes[c].swaggerMethods # None
                 /\ MethodNameOf(routes[r].method) \in classes[c].swaggerMethods[1]

\* C9 as stated: the object the caller passed as opts holds after the run what
\* it held before it.
C9_CallerOptionsUnchanged == Returned => callerOpts = callerOpts0

\* C10 as stated: the callback resolves a method identifier to the text before
\* its first dot and to the rest without a leading 'prototype.'.
C10_ParseStripsLeadingMarkerOnly ==
  lastParse # None =>
    /\ lastParse[1].className = OwnerOf(routes[lastParse[1].route].method)
    /\ lastParse[1].methodName = MethodNameOf(routes[lastParse[1].route].method)
====
